---- MODULE Spec2Model ----
(***************************************************************************)
(* Sliding-window LD-pruning engine of polySV (src/prune_ld.c, readVcf /   *)
(* estLD / estR2).  One action per VCF data line (the whole body of the    *)
(* getline loop for that line) and one for the end-of-input flush.         *)
(*                                                                         *)
(* Slots are indexed 0..win-1 as in the C code.  A slot that malloc        *)
(* returned and no line has written yet holds indeterminate bytes: its     *)
(* chr is modelled by the name Garbage and its ok by Uninit, which is      *)
(* resolved to one value of GarbageOk the first time the code reads it.    *)
(* Slot fields line and cand are history fields (input line number and     *)
(* ordinal among pre-filter-passing sites); the code has no such fields    *)
(* and never reads them.                                                   *)
(***************************************************************************)
EXTENDS Integers, Sequences, FiniteSets, TLC

\* ---------------------------------------------------------------- bounds
MaxLines == 4
MaxWin == 3
\* individuals of the dosage vectors given to the estimator
MaxInd == 3

\* -------------------------------------------------- program constants
\* default of -mis (proportion, in percent)
MisPct == 60
\* default of -maf (proportion, in percent)
MafPct == 5

\* maximum r2 values (percent) the runs are configured with
R2Pcts == {10}

\* chromosome names, in sorted order
Chroms == <<"1", "2">>

Garbage == "?"
Uninit == 9
GarbageOk == {-1, 0, 1}

\* genotype tokens as character sequences
T00 == <<"0", "/", "0">>
T01 == <<"0", "/", "1">>
T11 == <<"1", "/", "1">>
TMis == <<".", "/", ".">>
\* an allele other than 0 and 1, and a token of a length that is no ploidy
T02 == <<"0", "/", "2">>
T001 == <<"0", "/", "0", "/", "1">>

\* genotype columns of the data lines fed to the engine (3 individuals):
\* dosages (0,1,2), (0,2,1), (1,0,1) pass the pre-filters, (0,0,0) fails MAF;
\* r2 is 0.25 for the first two, 0.75 for the middle two, 0 for the outer two
GenoRows ==
  { <<T00, T01, T11>>, <<T00, T11, T01>>, <<T01, T00, T01>>, <<T00, T00, T00>> }

\* the rows of the end-to-end scenario of the specification: (0,1,2), (2,1,0),
\* (0,0,0)
ScenarioRows ==
  { <<T00, T01, T11>>, <<T11, T01, T00>>, <<T00, T00, T00>> }

\* tetraploid tokens, and tokens that begin with the missing marker
T0011 == <<"0", "/", "0", "/", "1", "/", "1">>
T1111 == <<"1", "|", "1", "|", "1", "|", "1">>
TMis1 == <<".">>
TMisJunk == <<".", "2", "x", "1">>

\* rows of mixed ploidy with missing genotypes; the last one fails the
\* missing-data filter
ExtractRows ==
  { <<T0011, T01, TMis>>, <<T1111, TMis1, T00>>, <<T01, T0011, TMisJunk>>,
    <<TMis1, TMisJunk, T11>> }

\* rows with a genotype token the extractor does not accept, after a token it
\* accepts
MalformedRows ==
  { <<T01, T02, T11>>, <<T01, T001, T11>> }

\* the rows of the runs compared with their filtered input: a candidate site
\* (0,1,2) and a site (0,0,0) that fails the MAF filter
PairRows ==
  { <<T00, T01, T11>>, <<T00, T00, T00>> }

VARIABLES win, step, r2, snps, win_i, win_n, step_i, ind_n, out, pc,
          nline, ncand, held, ev, ln, rows, cands, ref, cli

vars == <<win, step, r2, snps, win_i, win_n, step_i, ind_n, out, pc,
          nline, ncand, held, ev, ln, rows, cands, ref, cli>>

\* ------------------------------------------------------ dosage extractor
\* switch(strlen(hap)): ploidy of a token, 0 for an unsupported length
Ploidy(tok) ==
  CASE Len(tok) = 3 -> 2
    [] Len(tok) = 7 -> 4
    [] Len(tok) = 11 -> 6
    [] Len(tok) = 15 -> 8
    [] OTHER -> 0

\* offsets 0,2,..,stop of the C string are positions 1,3,..,2*ploidy-1
AlleleOffsets(tok) == { 2 * k - 1 : k \in 1..Ploidy(tok) }

\* variant: only the length of the token is looked at
TokenBadLengthOnly(tok) == tok[1] # "." /\ Ploidy(tok) = 0

\* the two exits of lines 356-358 and 364-367
TokenBad(tok) ==
  /\ tok[1] # "."
  /\ \/ Ploidy(tok) = 0
     \/ \E o \in AlleleOffsets(tok) : tok[o] \notin {"0", "1"}

RECURSIVE SumAlleles(_, _)
SumAlleles(tok, k) ==
  IF k > Ploidy(tok) THEN 0
  ELSE (IF tok[2 * k - 1] = "1" THEN 1 ELSE 0) + SumAlleles(tok, k + 1)

\* dosage of one individual: -1 for a token starting with the missing marker
Dosage(tok) == IF tok[1] = "." THEN -1 ELSE SumAlleles(tok, 1)

\* variant: a missing token counts as a diploid genotype in the allele total
RECURSIVE ParseFromCountsMissing(_, _, _)
ParseFromCountsMissing(row, k, acc) ==
  IF k > Len(row) THEN acc
  ELSE IF TokenBad(row[k]) THEN [acc EXCEPT !.err = TRUE]
  ELSE IF row[k][1] = "."
    THEN ParseFromCountsMissing(row, k + 1,
           [acc EXCEPT !.geno = Append(@, -1), !.mis_i = @ + 1,
                       !.hap_i = @ + 2, !.ind_i = @ + 1])
    ELSE ParseFromCountsMissing(row, k + 1,
           [acc EXCEPT !.geno = Append(@, Dosage(row[k])),
                       !.alt_i = @ + Dosage(row[k]),
                       !.hap_i = @ + Ploidy(row[k]),
                       !.ind_i = @ + 1])

RECURSIVE ParseFrom(_, _, _)
ParseFrom(row, k, acc) ==
  IF k > Len(row) THEN acc
  ELSE IF TokenBad(row[k]) THEN [acc EXCEPT !.err = TRUE]
  ELSE IF row[k][1] = "."
    THEN ParseFrom(row, k + 1,
           [acc EXCEPT !.geno = Append(@, -1), !.mis_i = @ + 1, !.ind_i = @ + 1])
    ELSE ParseFrom(row, k + 1,
           [acc EXCEPT !.geno = Append(@, Dosage(row[k])),
                       !.alt_i = @ + Dosage(row[k]),
                       !.hap_i = @ + Ploidy(row[k]),
                       !.ind_i = @ + 1])

\* the k > 9 columns of one line: dosages and the running sums of the site
ParseRow(row) ==
  ParseFrom(row, 1, [geno |-> <<>>, mis_i |-> 0, alt_i |-> 0, hap_i |-> 0,
                     ind_i |-> 0, err |-> FALSE])

\* missing-data and minor-allele-frequency tests (TRUE = site is dropped)
FailsMis(p, n) == p.mis_i * 100 > (100 - MisPct) * n \/ p.mis_i = n
FailsMaf(p) ==
  \/ p.alt_i * 100 < MafPct * p.hap_i
  \/ p.alt_i * 100 > (100 - MafPct) * p.hap_i
\* variant: the minor-allele-frequency test left out
PreFilterFailsNoMaf(p, n) == FailsMis(p, n)

PreFilterFails(p, n) == FailsMis(p, n) \/ FailsMaf(p)

\* -------------------------------------------------- correlation estimator
\* variant: only an individual missing in the first vector is left out
RECURSIVE R2SumsFirstMissingOnly(_, _, _, _)
R2SumsFirstMissingOnly(g1, g2, i, acc) ==
  IF i > acc.m THEN acc
  ELSE IF g1[i] = -1
    THEN R2SumsFirstMissingOnly(g1, g2, i + 1, [acc EXCEPT !.n = @ - 1])
    ELSE R2SumsFirstMissingOnly(g1, g2, i + 1,
           [acc EXCEPT !.sum1 = @ + g1[i], !.sum2 = @ + g2[i],
                       !.sum12 = @ + g1[i] * g2[i],
                       !.sqsum1 = @ + g1[i] * g1[i],
                       !.sqsum2 = @ + g2[i] * g2[i]])

RECURSIVE R2Sums(_, _, _, _)
R2Sums(g1, g2, i, acc) ==
  IF i > acc.m THEN acc
  ELSE IF g1[i] = -1 \/ g2[i] = -1
    THEN R2Sums(g1, g2, i + 1, [acc EXCEPT !.n = @ - 1])
    ELSE R2Sums(g1, g2, i + 1,
           [acc EXCEPT !.sum1 = @ + g1[i], !.sum2 = @ + g2[i],
                       !.sum12 = @ + g1[i] * g2[i],
                       !.sqsum1 = @ + g1[i] * g1[i],
                       !.sqsum2 = @ + g2[i] * g2[i]])

\* r*r with r = num / sqrt(den), kept as the exact pair (num, den)
estR2(geno1, geno2, n) ==
  LET a == R2Sums(geno1, geno2, 1,
             [m |-> n, n |-> n, sum1 |-> 0, sum2 |-> 0, sum12 |-> 0,
              sqsum1 |-> 0, sqsum2 |-> 0])
  IN [num |-> a.n * a.sum12 - a.sum1 * a.sum2,
      den |-> (a.n * a.sqsum1 - a.sum1 * a.sum1)
              * (a.n * a.sqsum2 - a.sum2 * a.sum2)]

\* variant: an undefined r2 counts as above the threshold
R2ExceedsIfUndefined(r, pct) ==
  IF r.den > 0 THEN r.num * r.num * 100 > pct * r.den ELSE TRUE

\* the C comparison estR2(...) > r2: sqrt of a negative number and 0/0 are
\* NaN (comparison false), x/0 with x # 0 is infinite (comparison true)
R2Exceeds(r, pct) ==
  IF r.den > 0 THEN r.num * r.num * 100 > pct * r.den
  ELSE IF r.den = 0 THEN r.num # 0
  ELSE FALSE

\* ------------------------------------------------------------ the window
\* a slot as malloc returns it
FreshSlot ==
  [chr |-> Garbage, pos |-> 0, ok |-> Uninit, geno |-> <<>>, line |-> 0, cand |-> 0]

UninitSlots(s) == { i \in DOMAIN s : s[i].ok = Uninit }

\* the value a read of ok yields: g fixes what the indeterminate bytes hold
Resolve(s, idx, g) ==
  [i \in DOMAIN s |->
     IF i \in idx /\ s[i].ok = Uninit THEN [s[i] EXCEPT !.ok = g[i]] ELSE s[i]]

\* variant: only a slot no line has written yet is zeroed
MemsetGenoOnce(s, i, n) ==
  IF s[i].geno = <<>> THEN [s EXCEPT ![i].geno = [k \in 1..n |-> 0]] ELSE s

\* memset(snps[i].geno, 0, geno_n * sizeof(double))
MemsetGeno(s, i, n) == [s EXCEPT ![i].geno = [k \in 1..n |-> 0]]

\* geno[ind_i] = -1 for a missing token, geno[ind_i] += allele otherwise
FillGeno(base, d) ==
  [k \in 1..Len(base) |->
     IF k > Len(d) THEN base[k] ELSE IF d[k] = -1 THEN -1 ELSE base[k] + d[k]]

\* what printOut writes for a slot; via names the call site ("steady": line
\* 398, "chrom": line 303, "eof": line 408) and is a history field
OutRec(sl, via) ==
  [line |-> sl.line, chr |-> sl.chr, pos |-> sl.pos, geno |-> sl.geno,
   cand |-> sl.cand, via |-> via]

\* ---------------------------------------------------------- pruning policy
\* variant: the scan passes over slots that are already rejected
RECURSIVE ScanSkipRejected(_, _, _, _, _, _)
ScanSkipRejected(s, n, i, j, ind, pct) ==
  IF j >= n THEN [j |-> n, cmp |-> {}]
  ELSE IF s[j].chr = "" \/ s[j].ok = 0 THEN ScanSkipRejected(s, n, i, j + 1, ind, pct)
  ELSE IF s[i].chr # s[j].chr THEN ScanSkipRejected(s, n, i, j + 1, ind, pct)
  ELSE IF R2Exceeds(estR2(s[i].geno, s[j].geno, ind), pct)
    THEN [j |-> j, cmp |-> {j}]
  ELSE LET r == ScanSkipRejected(s, n, i, j + 1, ind, pct)
       IN [j |-> r.j, cmp |-> r.cmp \cup {j}]

\* variant: the scan without the chromosome comparison
RECURSIVE ScanNoChrCheck(_, _, _, _, _, _)
ScanNoChrCheck(s, n, i, j, ind, pct) ==
  IF j >= n THEN [j |-> n, cmp |-> {}]
  ELSE IF s[j].chr = "" THEN ScanNoChrCheck(s, n, i, j + 1, ind, pct)
  ELSE IF R2Exceeds(estR2(s[i].geno, s[j].geno, ind), pct)
    THEN [j |-> j, cmp |-> {j}]
  ELSE LET r == ScanNoChrCheck(s, n, i, j + 1, ind, pct)
       IN [j |-> r.j, cmp |-> r.cmp \cup {j}]

\* variant: the scan looks at the next slot only
ScanAdjacentOnly(s, n, i, j, ind, pct) ==
  IF j >= n \/ j > i + 1 THEN [j |-> n, cmp |-> {}]
  ELSE IF s[j].chr = "" \/ s[i].chr # s[j].chr THEN [j |-> n, cmp |-> {}]
  ELSE IF R2Exceeds(estR2(s[i].geno, s[j].geno, ind), pct)
    THEN [j |-> j, cmp |-> {j}]
  ELSE [j |-> n, cmp |-> {j}]

\* the inner loop of estLD for slot i, from index j on: the value of j when
\* the loop is left, and the indices for which estR2 was called
RECURSIVE Scan(_, _, _, _, _, _)
Scan(s, n, i, j, ind, pct) ==
  IF j >= n THEN [j |-> n, cmp |-> {}]
  ELSE IF s[j].chr = "" THEN Scan(s, n, i, j + 1, ind, pct)
  ELSE IF s[i].chr # s[j].chr THEN Scan(s, n, i, j + 1, ind, pct)
  ELSE IF R2Exceeds(estR2(s[i].geno, s[j].geno, ind), pct)
    THEN [j |-> j, cmp |-> {j}]
  ELSE LET r == Scan(s, n, i, j + 1, ind, pct)
       IN [j |-> r.j, cmp |-> r.cmp \cup {j}]

ScanJ(s, n, i, j, ind, pct) == Scan(s, n, i, j, ind, pct).j

\* slots whose ok field a pass over the first n slots reads and writes
EvalRange(s, n) == { i \in DOMAIN s : i < n /\ s[i].chr # "" }

\* variant: a site is rejected for a conflict with any other slot, before or
\* after it in the buffer
DecideBothDirections(s, n, i, ind, pct) ==
  IF /\ ~\E j \in EvalRange(s, n) \ {i} :
          /\ s[j].chr = s[i].chr
          /\ R2Exceeds(estR2(s[i].geno, s[j].geno, ind), pct)
     /\ (s[i].ok = -1 \/ s[i].ok = 1)
  THEN 1 ELSE 0

\* variant: the decision does not look at the state the slot is in
DecideIgnoresState(s, n, i, ind, pct) ==
  IF ScanJ(s, n, i, i + 1, ind, pct) = n THEN 1 ELSE 0

\* variant: only a Pending slot can become Kept
DecideKeepsPendingOnly(s, n, i, ind, pct) ==
  IF ScanJ(s, n, i, i + 1, ind, pct) = n /\ s[i].ok = -1 THEN 1 ELSE 0

\* the decision of line 458-461 for slot i
Decide(s, n, i, ind, pct) ==
  IF ScanJ(s, n, i, i + 1, ind, pct) = n /\ (s[i].ok = -1 \/ s[i].ok = 1)
  THEN 1 ELSE 0

\* estLD(snps, n, ind_n, r2).  The loop over i writes only snps[i].ok and the
\* scan reads only chr and geno, so the passes over i are independent.
estLD(s, n, ind, pct) ==
  [i \in DOMAIN s |->
     IF i \in EvalRange(s, n) THEN [s[i] EXCEPT !.ok = Decide(s, n, i, ind, pct)]
     ELSE s[i]]

\* pairs (i, j) for which a pass of estLD calls estR2
Compared(s, n, ind, pct) ==
  { p \in (DOMAIN s) \X (DOMAIN s) :
      /\ p[1] \in EvalRange(s, n)
      /\ p[2] \in Scan(s, n, p[1], p[1] + 1, ind, pct).cmp }

\* pairs (i, j) at which the scan of i was left by break
Blamed(s, n, ind, pct) ==
  { p \in (DOMAIN s) \X (DOMAIN s) :
      /\ p[1] \in EvalRange(s, n)
      /\ p[2] < n
      /\ ScanJ(s, n, p[1], p[1] + 1, ind, pct) = p[2] }

\* record of one pass: the window before and after, the pairs compared and
\* the pairs that ended a scan
PassRec(kind, pre, n, ind, pct) ==
  [kind |-> kind, n |-> n, pre |-> pre, post |-> estLD(pre, n, ind, pct),
   cmp |-> Compared(pre, n, ind, pct), blamed |-> Blamed(pre, n, ind, pct)]

NoPass ==
  [kind |-> "none", n |-> 0, pre |-> <<>>, post |-> <<>>, cmp |-> {}, blamed |-> {}]

\* ------------------------------------------------------------ stream driver
\* if(snps[win_i].ok == 1) { printOut(...); snps[win_i].ok = 0; }
\* variant: the slot stays Kept after it was printed
EmitSlotKeepsOk(s, o, i, via) ==
  IF s[i].ok = 1
  THEN [snps |-> s, out |-> Append(o, OutRec(s[i], via))]
  ELSE [snps |-> s, out |-> o]

EmitSlot(s, o, i, via) ==
  IF s[i].ok = 1
  THEN [snps |-> [s EXCEPT ![i].ok = 0], out |-> Append(o, OutRec(s[i], via))]
  ELSE [snps |-> s, out |-> o]

\* variant: the flush loop walks the buffer downwards
RECURSIVE FlushLoopBackward(_, _, _, _, _)
FlushLoopBackward(s, o, wi, k, via) ==
  IF k = 0 THEN [snps |-> s, out |-> o]
  ELSE LET r == IF s[wi].ok = 1
                THEN [snps |-> [s EXCEPT ![wi].ok = 0],
                      out |-> Append(o, OutRec(s[wi], via))]
                ELSE [snps |-> s, out |-> o]
       IN FlushLoopBackward(r.snps, r.out, IF wi = 0 THEN win - 1 ELSE wi - 1,
                            k - 1, via)

\* the flush loop: k iterations starting at the cursor wi
RECURSIVE FlushLoop(_, _, _, _, _)
FlushLoop(s, o, wi, k, via) ==
  IF k = 0 THEN [snps |-> s, out |-> o]
  ELSE LET r == EmitSlot(s, o, wi, via)
       IN FlushLoop(r.snps, r.out, IF wi + 1 = win THEN 0 ELSE wi + 1, k - 1, via)

\* variant: the boundary is only acted on once the window is full
ChromChangedFullOnly(e, s, c) == e.win_n = win - 1 /\ s[0].chr # c

\* the chromosome test of line 299
ChromChanged(e, s, c) == e.win_n > 0 /\ s[0].chr # c

\* lines 300-314: forced evaluation, flush, reset
Drain(e, s, g) ==
  LET pre == Resolve(s, EvalRange(s, e.win_n + 1), g)
      post == estLD(pre, e.win_n + 1, e.ind_n, r2)
      fl == FlushLoop(Resolve(post, DOMAIN s, g), e.out, e.win_i, win, "chrom")
  IN [snps |-> MemsetGeno(fl.snps, 0, Len(s[e.win_i].geno)),
      win_i |-> 0, win_n |-> 0, step_i |-> 0, out |-> fl.out, held |-> "",
      flushed |-> { fl.out[k].line : k \in (Len(e.out) + 1)..Len(fl.out) },
      ev |-> PassRec("chrom", pre, e.win_n + 1, e.ind_n, r2)]

\* variant: with win = step every placement makes a pass
TriggerEveryPlacement(wn, wi, si) == (wn = win - 1 /\ si >= step) \/ win = step

\* variant: the trigger does not wait for the window to be full
TriggerWhileFilling(wn, wi, si) == si >= step \/ (win = step /\ wi = win - 1)

\* variant: the trigger without the case win = step
TriggerStepOnly(wn, wi, si) == wn = win - 1 /\ si >= step

\* the evaluation trigger of line 386
Trigger(wn, wi, si) == (wn = win - 1 /\ si >= step) \/ (win = step /\ wi = win - 1)

\* lines 386-402: a site that passed the pre-filters
Place(d, s, ind, g) ==
  LET trig == Trigger(d.win_n, d.win_i, d.step_i)
      pre == Resolve(s, EvalRange(s, d.win_n + 1), g)
      sT == IF trig THEN estLD(pre, d.win_n + 1, ind, r2) ELSE s
      wn == IF d.win_n < win - 1 THEN d.win_n + 1 ELSE d.win_n
      wi == IF d.win_i + 1 = win THEN 0 ELSE d.win_i + 1
      em == IF wn = win - 1 THEN EmitSlot(Resolve(sT, {wi}, g), d.out, wi, "steady")
            ELSE [snps |-> sT, out |-> d.out]
  IN [snps |-> em.snps, win_i |-> wi, win_n |-> wn,
      step_i |-> (IF trig THEN 0 ELSE d.step_i) + 1,
      out |-> em.out,
      ev |-> IF trig THEN PassRec("step", pre, d.win_n + 1, ind, r2) ELSE d.ev]

\* variant: the site gets a slot of its own, appended to the window
StoreSiteNewSlot(s, i, rec) ==
  [k \in DOMAIN s \cup {Cardinality(DOMAIN s)} |->
     IF k = i THEN rec ELSE IF k \in DOMAIN s THEN s[k] ELSE FreshSlot]

\* lines 316-318 and 326-368: chr, pos, ok and the dosages of the line are
\* written into slot i of the window
StoreSite(s, i, rec) == [s EXCEPT ![i] = rec]

\* lines 375-403: the pre-filters, the placement and the record of the line
FilterAndPlace(e, c, cno, g, d, pr, s2, ind, note) ==
  IF pr.err
  THEN [snps |-> s2, win_i |-> d.win_i, win_n |-> d.win_n,
        step_i |-> d.step_i, ind_n |-> e.ind_n, out |-> d.out,
        held |-> d.held, ev |-> d.ev, ln |-> note]
  ELSE IF PreFilterFails(pr, ind)
  THEN [snps |-> [s2 EXCEPT ![d.win_i].chr = ""],
        win_i |-> d.win_i, win_n |-> d.win_n, step_i |-> d.step_i,
        ind_n |-> ind, out |-> d.out, held |-> d.held, ev |-> d.ev, ln |-> note]
  ELSE LET pl == Place(d, [s2 EXCEPT ![d.win_i].cand = cno], ind, g)
       IN [snps |-> pl.snps, win_i |-> pl.win_i, win_n |-> pl.win_n,
           step_i |-> pl.step_i, ind_n |-> ind, out |-> pl.out, held |-> c,
           ev |-> pl.ev, ln |-> note]

\* lines 316-374: the slot at the cursor is written from the line; d: the
\* engine after the chromosome test, pr: the parsed genotype columns
WriteSlot(e, c, p, row, lno, cno, g, chg, d, pr, ind) ==
  FilterAndPlace(e, c, cno, g, d, pr,
    StoreSite(d.snps, d.win_i,
       [chr |-> c, pos |-> p, ok |-> -1,
        geno |-> FillGeno(d.snps[d.win_i].geno, pr.geno),
        line |-> lno, cand |-> 0]),
    ind,
    [chr |-> c, prev |-> e.ln.chr, heldBefore |-> e.held,
     drained |-> chg, pass |-> d.ev.kind, passN |-> d.ev.n,
     popBefore |-> e.win_n, flushed |-> d.flushed,
     keptByPass |-> { d.ev.post[i].line :
                        i \in { k \in DOMAIN d.ev.post : d.ev.post[k].ok = 1 } },
     at |-> [win_i |-> d.win_i, win_n |-> d.win_n, step_i |-> d.step_i],
     keptAtPlace |-> { i \in DOMAIN d.snps : d.snps[i].ok = 1 },
     passed |-> ~pr.err /\ ~PreFilterFails(pr, ind), line |-> lno,
     placedBefore |-> e.ln.placed,
     sinceBefore |-> e.ln.since,
     since |-> IF chg \/ e.ln.since = 0 THEN lno ELSE e.ln.since,
     placed |-> (IF chg THEN 0 ELSE e.ln.placed)
                + (IF ~pr.err /\ ~PreFilterFails(pr, ind) THEN 1 ELSE 0),
     row |-> row,
     sums |-> [mis_i |-> pr.mis_i, alt_i |-> pr.alt_i, hap_i |-> pr.hap_i]])

\* lines 299-315: the chromosome test and the drain; s1: the window after the
\* memset of line 277
TestChrom(e, c, p, row, lno, cno, g, s1, chg, pr) ==
  WriteSlot(e, c, p, row, lno, cno, g, chg,
    IF chg THEN Drain(e, s1, g)
    ELSE [snps |-> s1, win_i |-> e.win_i, win_n |-> e.win_n,
          step_i |-> e.step_i, out |-> e.out, held |-> e.held,
          flushed |-> {}, ev |-> NoPass],
    pr,
    IF e.ind_n = 0 THEN pr.ind_i ELSE e.ind_n)

\* one VCF data line (lines 271-403); c, p: CHROM and POS, row: the genotype
\* columns, lno, cno: line number and candidate ordinal (history only).  The
\* record ln of the line is history: placed counts the sites placed since the
\* last reset of lines 307-309, the site of this line included, and since is
\* the number of the first line read after that reset
HandleLine(e, c, p, row, lno, cno, g) ==
  LET s1 == MemsetGeno(e.snps, e.win_i, Len(row))
  IN TestChrom(e, c, p, row, lno, cno, g, s1, ChromChanged(e, s1, c), ParseRow(row))

\* lines 405-415: the final evaluation and flush
Finish(e, g) ==
  LET pre == Resolve(e.snps, EvalRange(e.snps, e.win_n + 1), g)
      post == estLD(pre, e.win_n + 1, e.ind_n, r2)
      fl == FlushLoop(Resolve(post, DOMAIN post, g), e.out, e.win_i, win, "eof")
  IN [e EXCEPT !.snps = fl.snps, !.out = fl.out,
               !.ev = PassRec("eof", pre, e.win_n + 1, e.ind_n, r2)]

\* ---------------------------------------------------------------- the run
NoLine ==
  [chr |-> "", prev |-> "", heldBefore |-> "", drained |-> FALSE,
   pass |-> "none", passN |-> 0, popBefore |-> 0, flushed |-> {},
   keptByPass |-> {},
   at |-> [win_i |-> 0, win_n |-> 0, step_i |-> 0], keptAtPlace |-> {},
   passed |-> FALSE, line |-> 0, placedBefore |-> 0, sinceBefore |-> 0,
   since |-> 0, placed |-> 0, row |-> <<>>,
   sums |-> [mis_i |-> 0, alt_i |-> 0, hap_i |-> 0]]

Eng ==
  [snps |-> snps, win_i |-> win_i, win_n |-> win_n, step_i |-> step_i,
   ind_n |-> ind_n, out |-> out, held |-> held, ev |-> ev, ln |-> ln]

SetEng(e) ==
  /\ snps' = e.snps /\ win_i' = e.win_i /\ win_n' = e.win_n
  /\ step_i' = e.step_i /\ ind_n' = e.ind_n /\ out' = e.out
  /\ held' = e.held /\ ev' = e.ev /\ ln' = e.ln

ChrIdx(c) == IF c = "" THEN 0 ELSE CHOOSE k \in 1..Len(Chroms) : Chroms[k] = c

\* chromosomes the next line of a sorted VCF may carry
NextChroms == { Chroms[k] : k \in { j \in 1..Len(Chroms) : j >= ChrIdx(ln.chr) } }

\* the command line is only looked at by the specification of openFiles
NoCli == [tool |-> "prune_ld", r2args |-> <<>>]

\* the engine before the first line
FreshEng(w) ==
  [snps |-> [i \in 0..(w - 1) |-> FreshSlot], win_i |-> 0, win_n |-> 0,
   step_i |-> 0, ind_n |-> 0, out |-> <<>>, held |-> "", ev |-> NoPass,
   ln |-> NoLine]

InitRun ==
  /\ snps = FreshEng(win).snps
  /\ win_i = 0 /\ win_n = 0 /\ step_i = 0 /\ ind_n = 0
  /\ out = <<>> /\ pc = "reading" /\ nline = 0 /\ ncand = 0
  /\ held = "" /\ ev = NoPass /\ ln = NoLine
  /\ cands = <<>>
  /\ ref = FreshEng(win)
  /\ cli = NoCli

\* openFiles accepted -r2 win step r2 with 1 <= win, 1 <= step <= win
Init ==
  /\ win \in 1..MaxWin
  /\ step \in 1..win
  /\ r2 \in R2Pcts
  /\ rows = GenoRows
  /\ InitRun

\* the same, with the lines drawn from PairRows
InitPair ==
  /\ win \in 1..MaxWin
  /\ step \in 1..win
  /\ r2 \in R2Pcts
  /\ rows = PairRows
  /\ InitRun

\* -r2 3 1 0.1 and the sites of the end-to-end scenario
InitScenario ==
  /\ win = 3 /\ step = 1 /\ r2 = 10
  /\ rows = ScenarioRows
  /\ InitRun

\* the extractor leaves by exit(EXIT_FAILURE) on a token of the row
Malformed(row) == ParseRow(row).err

Passes(row) == ~Malformed(row) /\ ~PreFilterFails(ParseRow(row), Len(row))

\* a data line (c, row) whose site passes both pre-filters
ReadPlaced(c, row) ==
  /\ pc = "reading" /\ nline < MaxLines
  /\ Passes(row)
  /\ \E g \in [UninitSlots(snps) -> GarbageOk] :
       \E e2 \in {HandleLine(Eng, c, 10 * (nline + 1), row, nline + 1, ncand + 1, g)} :
         SetEng(e2)
  /\ nline' = nline + 1 /\ ncand' = ncand + 1
  /\ cands' = Append(cands, [line |-> nline + 1, chr |-> c,
                             geno |-> ParseRow(row).geno])
  /\ UNCHANGED <<win, step, r2, pc, rows, cli>>

\* a data line (c, row) whose site fails a pre-filter
ReadFiltered(c, row) ==
  /\ pc = "reading" /\ nline < MaxLines
  /\ ~Malformed(row) /\ ~Passes(row)
  /\ \E g \in [UninitSlots(snps) -> GarbageOk] :
       \E e2 \in {HandleLine(Eng, c, 10 * (nline + 1), row, nline + 1, 0, g)} :
         SetEng(e2)
  /\ nline' = nline + 1
  /\ UNCHANGED <<win, step, r2, pc, rows, ncand, cands, cli>>

\* a data line (c, row) with a token the extractor does not accept: what the
\* loop body has done when exit is called (the boundary flush of line 299-314
\* included), then the process is gone
ReadMalformed(c, row) ==
  /\ pc = "reading" /\ nline < MaxLines
  /\ Malformed(row)
  /\ \E g \in [UninitSlots(snps) -> GarbageOk] :
       \E e2 \in {HandleLine(Eng, c, 10 * (nline + 1), row, nline + 1, 0, g)} :
         SetEng(e2)
  /\ nline' = nline + 1
  /\ pc' = "fatal"
  /\ UNCHANGED <<win, step, r2, rows, ncand, cands, cli>>

\* getline returns -1 after at least one data line
ReadEnd ==
  /\ pc = "reading" /\ nline > 0
  /\ \E g \in [UninitSlots(snps) -> GarbageOk] :
       \E e2 \in {Finish(Eng, g)} : SetEng(e2)
  /\ pc' = "done"
  /\ UNCHANGED <<win, step, r2, rows, nline, ncand, cands, cli>>

\* getline returns -1 before any data line: snps is still NULL in estLD
ReadEndEmpty ==
  /\ pc = "reading" /\ nline = 0
  /\ pc' = "crash"
  /\ UNCHANGED <<win, step, r2, rows, snps, win_i, win_n, step_i, ind_n, out,
                 nline, ncand, held, ev, ln, cands, cli>>

LinePlaced ==
  \E c \in NextChroms, row \in rows : ReadPlaced(c, row) /\ UNCHANGED ref

LineFiltered ==
  \E c \in NextChroms, row \in rows : ReadFiltered(c, row) /\ UNCHANGED ref

EndOfInput == ReadEnd /\ UNCHANGED ref

EndOfInputEmpty == ReadEndEmpty /\ UNCHANGED ref

Next == LinePlaced \/ LineFiltered \/ EndOfInput \/ EndOfInputEmpty

Spec == Init /\ [][Next]_vars

SpecScenario == InitScenario /\ [][Next]_vars

\* ------------------------------------------------ the run on mixed ploidy
InitExtract ==
  /\ win \in 1..MaxWin
  /\ step \in 1..win
  /\ r2 \in R2Pcts
  /\ rows = ExtractRows
  /\ InitRun

SpecExtract == InitExtract /\ [][Next]_vars

\* ------------------------------------------------ the run on malformed input
\* two candidate sites with r2 = 0 and the malformed rows
InitMalformed ==
  /\ win \in 1..MaxWin
  /\ step \in 1..win
  /\ r2 \in R2Pcts
  /\ rows = { <<T00, T01, T11>>, <<T01, T00, T01>> } \cup MalformedRows
  /\ InitRun

LineMalformed ==
  \E c \in NextChroms, row \in rows : ReadMalformed(c, row) /\ UNCHANGED ref

NextMalformed ==
  LinePlaced \/ LineMalformed \/ EndOfInput \/ EndOfInputEmpty

SpecMalformed == InitMalformed /\ [][NextMalformed]_vars

\* ------------------------------------------------ the run on any input
\* chromosomes a line of a VCF that need not be sorted may carry: readVcf
\* compares CHROM with snps[0].chr only for equality
AnyChroms == { Chroms[k] : k \in 1..Len(Chroms) }

UnsortedPlaced ==
  \E c \in AnyChroms, row \in rows : ReadPlaced(c, row) /\ UNCHANGED ref

UnsortedFiltered ==
  \E c \in AnyChroms, row \in rows : ReadFiltered(c, row) /\ UNCHANGED ref

NextUnsorted ==
  UnsortedPlaced \/ UnsortedFiltered \/ EndOfInput \/ EndOfInputEmpty

SpecUnsorted == InitPair /\ [][NextUnsorted]_vars

\* ------------------------------------------------ the run on the filtered input
\* ref is a second run of the same engine, fed the same lines except those
\* whose site fails a pre-filter
PairPlaced ==
  \E c \in NextChroms, row \in rows :
    /\ ReadPlaced(c, row)
    /\ \E g \in [UninitSlots(ref.snps) -> GarbageOk] :
         ref' = HandleLine(ref, c, 10 * (nline + 1), row, nline + 1, ncand + 1, g)

PairFiltered ==
  \E c \in NextChroms, row \in rows : ReadFiltered(c, row) /\ UNCHANGED ref

PairEnd ==
  /\ ReadEnd
  /\ IF ncand > 0
     THEN \E g \in [UninitSlots(ref.snps) -> GarbageOk] : ref' = Finish(ref, g)
     ELSE UNCHANGED ref

PairEndEmpty == ReadEndEmpty /\ UNCHANGED ref

NextPair == PairPlaced \/ PairFiltered \/ PairEnd \/ PairEndEmpty

SpecPair == InitPair /\ [][NextPair]_vars

\* ------------------------------------------------ the run with a sites list
\* two candidate sites with r2 = 0; two lines with the same row have r2 = 1
SiteRows == { <<T00, T01, T11>>, <<T01, T00, T01>> }

InitSites ==
  /\ win \in 1..MaxWin
  /\ step \in 1..win
  /\ r2 \in R2Pcts
  /\ rows = SiteRows
  /\ InitRun

\* a data line whose locus is not in the sites list (-sites): the loop body
\* runs the memset of line 277 and leaves the column loop at k == 2 by the
\* break of line 297, so that temp != NULL and lines 375-403 are skipped
ReadSkipped ==
  /\ pc = "reading" /\ nline < MaxLines
  /\ snps' = MemsetGeno(snps, win_i, Len(CHOOSE row \in rows : TRUE))
  /\ nline' = nline + 1
  /\ UNCHANGED <<win, step, r2, win_i, win_n, step_i, ind_n, out, pc, ncand,
                 held, ev, ln, rows, cands, cli>>

\* ref is the run of the same lines without those that are not in the list
SitesPlaced ==
  \E c \in NextChroms, row \in rows :
    /\ ReadPlaced(c, row)
    /\ \E g \in [UninitSlots(ref.snps) -> GarbageOk] :
         ref' = HandleLine(ref, c, 10 * (nline + 1), row, nline + 1, ncand + 1, g)

SitesSkipped == ReadSkipped /\ UNCHANGED ref

SitesEnd ==
  /\ ReadEnd
  /\ IF ncand > 0
     THEN \E g \in [UninitSlots(ref.snps) -> GarbageOk] : ref' = Finish(ref, g)
     ELSE UNCHANGED ref

SitesEndEmpty == ReadEndEmpty /\ UNCHANGED ref

NextSites == SitesPlaced \/ SitesSkipped \/ SitesEnd \/ SitesEndEmpty

SpecSites == InitSites /\ [][NextSites]_vars

\* ------------------------------------------------ the engine of poly_freq
\* readVcf of poly_freq.c with r2 < 1.  estLD, estR2, the flush loop and the
\* genotype extractor are the same statements as in prune_ld.c; ind_n is the
\* number of individuals of the pops file and is set before the first line.
\* The per-population allele counts of a slot are not modelled.
\* lines 469-487: the chromosome test with the forced pass, flush and reset
FreqBoundary(e, s, c, g) ==
  IF e.win_n > 0 /\ s[0].chr # c
  THEN LET post == estLD(Resolve(s, EvalRange(s, e.win_n + 1), g),
                         e.win_n + 1, e.ind_n, r2)
           fl == FlushLoop(Resolve(post, DOMAIN s, g), e.out, e.win_i, win, "chrom")
       IN [snps |-> MemsetGeno(fl.snps, 0, Len(s[e.win_i].geno)), out |-> fl.out,
           win_i |-> 0, win_n |-> 0, step_i |-> 0]
  ELSE [snps |-> s, out |-> e.out, win_i |-> e.win_i, win_n |-> e.win_n,
        step_i |-> e.step_i]

\* lines 578-584: the emission check after the counters were advanced
FreqEmit(e, s, o, wi, wn, si, g) ==
  IF wn = win - 1
  THEN LET em == EmitSlot(Resolve(s, {wi}, g), o, wi, "steady")
       IN [e EXCEPT !.snps = em.snps, !.out = em.out, !.win_i = wi,
                    !.win_n = wn, !.step_i = si]
  ELSE [e EXCEPT !.snps = s, !.out = o, !.win_i = wi, !.win_n = wn, !.step_i = si]

\* lines 568-577: the trigger and the counters; b: the engine after the slot
\* at the cursor was written
FreqPlace(e, b, s, g) ==
  IF (b.win_n = win - 1 /\ b.step_i >= step) \/ (win = step /\ b.win_i = win - 1)
  THEN FreqEmit(e, estLD(Resolve(s, EvalRange(s, b.win_n + 1), g),
                         b.win_n + 1, e.ind_n, r2),
                b.out, (b.win_i + 1) % win,
                IF b.win_n < win - 1 THEN b.win_n + 1 ELSE b.win_n, 1, g)
  ELSE FreqEmit(e, s, b.out, (b.win_i + 1) % win,
                IF b.win_n < win - 1 THEN b.win_n + 1 ELSE b.win_n,
                b.step_i + 1, g)

\* lines 488-566: the slot at the cursor is written and the
\* pre-filters are applied
FreqStore(e, b, c, p, pr, lno, cno, g) ==
  IF PreFilterFails(pr, e.ind_n)
  THEN [e EXCEPT !.snps = [b.snps EXCEPT ![b.win_i] =
                             [chr |-> "", pos |-> p, ok |-> -1,
                              geno |-> FillGeno(b.snps[b.win_i].geno, pr.geno),
                              line |-> lno, cand |-> 0]],
                 !.out = b.out, !.win_i = b.win_i, !.win_n = b.win_n,
                 !.step_i = b.step_i]
  ELSE FreqPlace(e, b,
         [b.snps EXCEPT ![b.win_i] =
            [chr |-> c, pos |-> p, ok |-> -1,
             geno |-> FillGeno(b.snps[b.win_i].geno, pr.geno),
             line |-> lno, cand |-> cno]], g)

\* one VCF data line (lines 435-586)
FreqLine(e, c, p, row, lno, cno, g) ==
  FreqStore(e, FreqBoundary(e, MemsetGeno(e.snps, e.win_i, Len(row)), c, g),
            c, p, ParseRow(row), lno, cno, g)

\* lines 591-603: the final pass and flush
FreqFinish(e, g) ==
  LET post == estLD(Resolve(e.snps, EvalRange(e.snps, e.win_n + 1), g),
                    e.win_n + 1, e.ind_n, r2)
      fl == FlushLoop(Resolve(post, DOMAIN post, g), e.out, e.win_i, win, "eof")
  IN [e EXCEPT !.snps = fl.snps, !.out = fl.out]

\* prune_ld and poly_freq read the same lines; ref is the engine of poly_freq,
\* whose window is allocated when the #CHROM line is read
InitTwin ==
  /\ win \in 1..MaxWin
  /\ step \in 1..win
  /\ r2 \in R2Pcts
  /\ rows = PairRows
  /\ snps = FreshEng(win).snps
  /\ win_i = 0 /\ win_n = 0 /\ step_i = 0 /\ ind_n = 0
  /\ out = <<>> /\ pc = "reading" /\ nline = 0 /\ ncand = 0
  /\ held = "" /\ ev = NoPass /\ ln = NoLine
  /\ cands = <<>>
  /\ ref = [FreshEng(win) EXCEPT !.ind_n = Len(CHOOSE row \in PairRows : TRUE)]
  /\ cli = NoCli

TwinPlaced ==
  \E c \in NextChroms, row \in rows :
    /\ ReadPlaced(c, row)
    /\ \E g \in [UninitSlots(ref.snps) -> GarbageOk] :
         ref' = FreqLine(ref, c, 10 * (nline + 1), row, nline + 1, ncand + 1, g)

TwinFiltered ==
  \E c \in NextChroms, row \in rows :
    /\ ReadFiltered(c, row)
    /\ \E g \in [UninitSlots(ref.snps) -> GarbageOk] :
         ref' = FreqLine(ref, c, 10 * (nline + 1), row, nline + 1, 0, g)

TwinEnd ==
  /\ ReadEnd
  /\ \E g \in [UninitSlots(ref.snps) -> GarbageOk] : ref' = FreqFinish(ref, g)

\* no data line: prune_ld calls estLD with snps = NULL, poly_freq makes the
\* final pass over the window it allocated at the #CHROM line
TwinEndEmpty ==
  /\ ReadEndEmpty
  /\ \E g \in [UninitSlots(ref.snps) -> GarbageOk] : ref' = FreqFinish(ref, g)

NextTwin == TwinPlaced \/ TwinFiltered \/ TwinEnd \/ TwinEndEmpty

SpecTwin == InitTwin /\ [][NextTwin]_vars

\* ------------------------------------------------------ the estimator alone
\* diploid dosages and the missing value
DosageVals == {-1, 0, 1, 2}

\* thresholds (percent) at and between the ends of [0, 1]
R2Thresholds == {0, 10, 100}

\* a window of two Pending sites of one chromosome with any dosage vectors
PairWindow(a, b) ==
  [i \in 0..1 |->
     [chr |-> "1", pos |-> 10 * (i + 1), ok |-> -1,
      geno |-> IF i = 0 THEN a ELSE b, line |-> i + 1, cand |-> i + 1]]

InitR2 ==
  /\ win = 2 /\ step = 1
  /\ r2 \in R2Thresholds
  /\ \E a, b \in [1..MaxInd -> DosageVals] : snps = PairWindow(a, b)
  /\ win_i = 0 /\ win_n = 1 /\ step_i = 1 /\ ind_n = MaxInd
  /\ out = <<>> /\ pc = "pair" /\ nline = 2 /\ ncand = 2
  /\ held = "1" /\ ev = NoPass /\ ln = NoLine
  /\ rows = {} /\ cands = <<>>
  /\ ref = FreshEng(2)
  /\ cli = NoCli

\* estLD on the window: estR2(snps[0].geno, snps[1].geno, ind_n) > r2
EvalPair ==
  /\ pc = "pair"
  /\ snps' = estLD(snps, 2, ind_n, r2)
  /\ ev' = PassRec("step", snps, 2, ind_n, r2)
  /\ pc' = "evaluated"
  /\ UNCHANGED <<win, step, r2, win_i, win_n, step_i, ind_n, out, nline, ncand,
                 held, ln, rows, cands, ref, cli>>

\* estLD on the window with the two sites in the other order
EvalSwapped ==
  /\ pc = "pair"
  /\ snps' = estLD(PairWindow(snps[1].geno, snps[0].geno), 2, ind_n, r2)
  /\ ev' = PassRec("step", PairWindow(snps[1].geno, snps[0].geno), 2, ind_n, r2)
  /\ pc' = "swapped"
  /\ UNCHANGED <<win, step, r2, win_i, win_n, step_i, ind_n, out, nline, ncand,
                 held, ln, rows, cands, ref, cli>>

NextR2 == EvalPair \/ EvalSwapped

SpecR2 == InitR2 /\ [][NextR2]_vars

\* ------------------------------------------------------ the command line
\* characters of the -r2 arguments
Digits == {"0", "1", "2", "5"}

DigitVal(c) == CASE c = "0" -> 0 [] c = "1" -> 1 [] c = "2" -> 2 [] c = "5" -> 5

\* what atof returns for "nan"; every comparison with it is false
NaN == 999

IsNan(s) == s = <<"n", "a", "n">>

\* isNumeric(s): strtod consumes the whole string (here: digits with at most
\* one decimal point, or nan)
isNumeric(s) ==
  \/ IsNan(s)
  \/ /\ Len(s) > 0
     /\ \A k \in 1..Len(s) : s[k] \in Digits \cup {"."}
     /\ Cardinality({ k \in 1..Len(s) : s[k] = "." }) <= 1
     /\ \E k \in 1..Len(s) : s[k] \in Digits

\* atoi(s): the value of the leading digits
RECURSIVE atoiFrom(_, _, _)
atoiFrom(s, k, acc) ==
  IF k > Len(s) \/ s[k] \notin Digits THEN acc
  ELSE atoiFrom(s, k + 1, 10 * acc + DigitVal(s[k]))

atoi(s) == atoiFrom(s, 1, 0)

\* atof(s) in percent, for at most two decimals
atof(s) ==
  IF IsNan(s) THEN NaN
  ELSE LET dots == { k \in 1..Len(s) : s[k] = "." }
           d == IF dots = {} THEN Len(s) + 1 ELSE CHOOSE k \in dots : TRUE
           frac(k) == IF d + k <= Len(s) /\ s[d + k] \in Digits
                      THEN DigitVal(s[d + k]) ELSE 0
       IN 100 * atoi(s) + 10 * frac(1) + frac(2)

\* x < y and x > y of two doubles, in percent
Less(x, y) == x # NaN /\ y # NaN /\ x < y
Greater(x, y) == x # NaN /\ y # NaN /\ x > y

\* argument strings given after -r2
WinArgs == { <<"0">>, <<"1">>, <<"2">>, <<"x">> }
R2Args == { <<"0", ".", "1">>, <<"1", ".", "5">>, <<"x">>, <<"n", "a", "n">> }

\* number of -r2 options on a command line
MaxR2Options == 2

Tools == {"prune_ld", "poly_freq"}

\* the locals of openFiles before the argument loop: win = 0, step = 0 and
\* r2 = -1 (prune_ld) or r2 = 1 (poly_freq)
InitArgs ==
  /\ cli \in { [tool |-> tl, r2args |-> <<>>] : tl \in Tools }
  /\ win = 0 /\ step = 0
  /\ r2 = (IF cli.tool = "prune_ld" THEN -100 ELSE 100)
  /\ pc = "args"
  /\ rows = GenoRows
  /\ snps = FreshEng(0).snps
  /\ win_i = 0 /\ win_n = 0 /\ step_i = 0 /\ ind_n = 0
  /\ out = <<>> /\ nline = 0 /\ ncand = 0
  /\ held = "" /\ ev = NoPass /\ ln = NoLine
  /\ cands = <<>>
  /\ ref = FreshEng(0)

\* the branch of the argument loop for -r2 a b c
OptionR2(a, b, c) ==
  LET w == IF isNumeric(a) THEN atoi(a) ELSE win
      badW == isNumeric(a) /\ w < 1
      s == IF isNumeric(b) THEN atoi(b) ELSE step
      badS == isNumeric(b) /\ (s > w \/ s < 1)
      r == IF isNumeric(c) THEN atof(c) ELSE r2
      badR == ~isNumeric(c) \/ Less(r, 0) \/ Greater(r, 100)
  IN /\ pc = "args" /\ Len(cli.r2args) < MaxR2Options
     /\ cli' = [cli EXCEPT !.r2args = Append(@, <<a, b, c>>)]
     /\ IF badW THEN pc' = "abort" /\ UNCHANGED <<win, step, r2>>
        ELSE IF badS THEN pc' = "abort" /\ win' = w /\ UNCHANGED <<step, r2>>
        ELSE IF badR THEN pc' = "abort" /\ win' = w /\ step' = s /\ UNCHANGED r2
        ELSE pc' = "args" /\ win' = w /\ step' = s /\ r2' = r
     /\ UNCHANGED <<snps, win_i, win_n, step_i, ind_n, out, nline, ncand, held,
                    ev, ln, rows, cands, ref>>

ArgR2 == \E a \in WinArgs, b \in WinArgs, c \in R2Args : OptionR2(a, b, c)

\* after the argument loop (-vcf, and -pops for poly_freq, were given):
\* prune_ld requires win, step and r2 to be set and calls readVcf; poly_freq
\* calls readVcf, which runs the pruning engine if r2 < 1
ArgsEnd ==
  /\ pc = "args"
  /\ pc' = IF cli.tool = "prune_ld"
           THEN (IF win = 0 \/ step = 0 \/ r2 = -100 THEN "abort" ELSE "pruning")
           ELSE (IF Less(r2, 100) THEN "pruning" ELSE "nopruning")
  /\ UNCHANGED <<win, step, r2, snps, win_i, win_n, step_i, ind_n, out, nline,
                 ncand, held, ev, ln, rows, cands, ref, cli>>

NextArgs == ArgR2 \/ ArgsEnd

SpecArgs == InitArgs /\ [][NextArgs]_vars

\* ------------------------------------------------------------------ claims
\* input line numbers of the sites printed so far (line 0: a record printed
\* from a slot no line ever wrote)
EmittedLines(o) == { o[k].line : k \in 1..Len(o) } \ {0}

EmittedPos(o) == { o[k].pos : k \in { j \in 1..Len(o) : o[j].line # 0 } }

Abs(x) == IF x < 0 THEN -x ELSE x

\* C1: among the emitted sites, no two sites of one chromosome that lie within
\* win consecutive candidate sites of each other have r2 above the maximum.
C1_EmittedPairsBelowMax ==
  \A a, b \in 1..Len(out) :
    ( /\ a # b /\ out[a].line # 0 /\ out[b].line # 0
      /\ out[a].chr = out[b].chr
      /\ Abs(out[a].cand - out[b].cand) < win )
    => ~R2Exceeds(estR2(out[a].geno, out[b].geno, ind_n), r2)

\* the run of the end-to-end scenario has ended: -r2 3 1 0.1 and exactly the
\* lines 1:10 (0,1,2), 1:20 (2,1,0), 1:30 (0,0,0) were read
ScenarioRun ==
  /\ win = 3 /\ step = 1 /\ r2 = 10 /\ pc = "done" /\ nline = 3
  /\ ln.chr = "1"
  /\ snps[0].line = 1 /\ snps[0].chr = "1" /\ snps[0].geno = <<0, 1, 2>>
  /\ snps[1].line = 2 /\ snps[1].chr = "1" /\ snps[1].geno = <<2, 1, 0>>
  /\ snps[2].line = 3 /\ snps[2].geno = <<0, 0, 0>>

\* C2 (as stated): at the end of the scenario run the set of emitted sites is
\* exactly {30}.
C2_ScenarioEmitsOnly30 == ScenarioRun => EmittedPos(out) = {30}

\* C2 (amended): at the end of the scenario run the input sites emitted are
\* exactly {20}; site 30 fails the MAF pre-filter and is no candidate.
C2_ScenarioEmitsOnly20 ==
  ScenarioRun => (EmittedPos(out) = {20} /\ ncand = 2 /\ snps[2].chr = "")

C2_Witness == ScenarioRun

\* C3: every site placed in the window is printed at most once, and a slot
\* whose site has been printed is not Kept.
C3_EmittedOnceAndCleared ==
  /\ \A a, b \in 1..Len(out) :
       (a # b /\ out[a].line # 0) => out[a].line # out[b].line
  /\ \A i \in DOMAIN snps : snps[i].line \in EmittedLines(out) => snps[i].ok # 1

\* a site printed while the stream was running still sits in the full window
\* that the end-of-input flush has walked over
C3_Witness ==
  /\ pc = "done" /\ win >= 2 /\ win_n = win - 1
  /\ snps[win_i].chr # ""
  /\ \E k \in 1..Len(out) :
       out[k].line = snps[win_i].line /\ out[k].line # 0 /\ out[k].via = "steady"
  /\ \E k \in 1..Len(out) : out[k].via = "eof"

\* C4: the sites emitted for an input are those emitted for the input with
\* every pre-filter-failing line deleted.
C4_FilteredLinesHaveNoInfluence ==
  pc = "done" => EmittedLines(out) = EmittedLines(ref.out)

\* a slot of the window before the last pass is surviving or undecided: it is
\* Pending or Kept, or its site has been printed
Surviving(j) ==
  ev.pre[j].ok \in {-1, 1} \/ ev.pre[j].line \in EmittedLines(out)

Conflict(i, j) ==
  /\ ev.pre[i].chr = ev.pre[j].chr
  /\ R2Exceeds(estR2(ev.pre[i].geno, ev.pre[j].geno, ind_n), r2)

\* slots that the last pass turned from Pending or Kept to Rejected
NewlyRejected ==
  { i \in EvalRange(ev.pre, ev.n) : ev.pre[i].ok \in {-1, 1} /\ ev.post[i].ok = 0 }

\* C5 (as stated): a site is rejected by a pass only if its r2 exceeds the
\* threshold with a same-chromosome site of the window that is surviving or
\* undecided.
C5_RejectedOnlyBySurvivor ==
  ev.kind # "none" =>
    \A i \in NewlyRejected :
      \E j \in EvalRange(ev.pre, ev.n) \ {i} : Conflict(i, j) /\ Surviving(j)

\* C5 (amended): a Pending or Kept site is rejected by a pass exactly when its
\* r2 exceeds the threshold with a non-tombstoned same-chromosome site at a
\* higher buffer index of the evaluated range, whatever the state of that site.
C5_RejectedByAnyLaterSlot ==
  ev.kind # "none" =>
    \A i \in EvalRange(ev.pre, ev.n) :
      (ev.post[i].ok = 0) <=>
        \/ ev.pre[i].ok \notin {-1, 1}
        \/ \E j \in EvalRange(ev.pre, ev.n) : j > i /\ Conflict(i, j)

\* a site was rejected by a pass whose only conflicting partner was itself
\* rejected earlier and never printed
C5_Witness ==
  /\ ev.kind # "none"
  /\ \E i \in NewlyRejected :
       /\ \E j \in EvalRange(ev.pre, ev.n) : j > i /\ Conflict(i, j)
       /\ \A j \in EvalRange(ev.pre, ev.n) \ {i} : Conflict(i, j) => ~Surviving(j)

\* C6 (as stated): the site rejected on account of a conflicting pair is the
\* one with the lower genomic position.
C6_LowerPositionRejected ==
  \A p \in ev.blamed : ev.pre[p[1]].pos < ev.pre[p[2]].pos

\* C6 (amended): of a conflicting pair the site at the lower buffer index is
\* the one rejected; a site newly rejected has a conflicting partner at a
\* higher index, so no site is rejected on account of a lower-index partner.
C6_LowerIndexRejected ==
  ev.kind # "none" =>
    /\ \A i, j \in EvalRange(ev.pre, ev.n) :
         (i < j /\ Conflict(i, j)) => ev.post[i].ok = 0
    /\ \A p \in ev.blamed : p[1] < p[2] /\ Conflict(p[1], p[2])
    /\ \A i \in NewlyRejected : \E p \in ev.blamed : p[1] = i

\* after the cursor wrapped, the site rejected for a pair is the later-read one
C6_Witness ==
  \E p \in ev.blamed :
    /\ ev.pre[p[1]].line > ev.pre[p[2]].line
    /\ ev.pre[p[1]].ok \in {-1, 1}

\* C7: the sites are printed in the order in which they were read.
C7_EmittedInInputOrder ==
  \A a, b \in 1..Len(out) :
    (a < b /\ out[a].line # 0 /\ out[b].line # 0) => out[a].line < out[b].line

\* sites were printed by the running stream, by a chromosome-boundary flush
\* (two of them in one flush) and by the end-of-input flush
C7_Witness ==
  /\ pc = "done"
  /\ \E a, b, c, d \in 1..Len(out) :
       /\ out[a].via = "steady" /\ out[a].line # 0
       /\ out[b].via = "chrom" /\ out[c].via = "chrom" /\ b # c
       /\ out[d].via = "eof" /\ out[d].line # 0

\* no two candidate sites of one chromosome have r2 above the threshold
NoConflictWithinChromosome ==
  \A a, b \in 1..Len(cands) :
    (a # b /\ cands[a].chr = cands[b].chr)
      => ~R2Exceeds(estR2(cands[a].geno, cands[b].geno, ind_n), r2)

\* C8: estR2 is called, and a scan left, only for two slots of one chromosome;
\* an input whose sites are pairwise below the threshold within each
\* chromosome has all its candidate sites emitted.
C8_ChromosomeIsolation ==
  /\ \A p \in ev.cmp \cup ev.blamed : ev.pre[p[1]].chr = ev.pre[p[2]].chr
  /\ (pc = "done" /\ NoConflictWithinChromosome)
       => \A k \in 1..Len(cands) : cands[k].line \in EmittedLines(out)

\* the final pass saw two sites of different chromosomes whose r2 is above the
\* threshold, and every candidate of the input was emitted
C8_Witness ==
  /\ pc = "done" /\ NoConflictWithinChromosome /\ Len(cands) >= 3
  /\ \E i, j \in EvalRange(ev.pre, ev.n) :
       /\ i # j
       /\ ev.pre[i].chr \notin {"", Garbage} /\ ev.pre[j].chr \notin {"", Garbage}
       /\ ev.pre[i].chr # ev.pre[j].chr
       /\ R2Exceeds(estR2(ev.pre[i].geno, ev.pre[j].geno, ind_n), r2)

\* the line just read carries another chromosome than the sites placed since
\* the last reset
BoundaryLine == ln.line # 0 /\ ln.heldBefore # "" /\ ln.chr # ln.heldBefore

\* what the boundary handling promises for that line
BoundaryHandled ==
  /\ ln.drained /\ ln.pass = "chrom" /\ ln.passN = ln.popBefore + 1
  /\ ln.keptByPass \subseteq ln.flushed
  /\ ln.keptAtPlace = {}
  /\ ln.at = [win_i |-> 0, win_n |-> 0, step_i |-> 0]

\* C9 (as stated): for every window size, a line of another chromosome has the
\* window evaluated and its Kept sites emitted before it is placed, and is
\* placed with population counter, step counter and cursor zero.
C9_BoundaryResetAnyWin == BoundaryLine => BoundaryHandled

\* C9 (amended): the same for every window size of at least 2.
C9_BoundaryResetWinAtLeast2 == (win >= 2 /\ BoundaryLine) => BoundaryHandled

\* a boundary line arrived at a partly filled window and its flush printed a
\* site
C9_Witness ==
  /\ win >= 3 /\ BoundaryLine /\ ln.popBefore < win - 1
  /\ ln.flushed \ {0} # {}

\* C10: a forced evaluation, flush and reset in mid-stream happens only if the
\* arriving line's chromosome differs from that of the line before it.
C10_DrainOnlyAtChromosomeChange ==
  ln.drained => ln.chr # ln.prev

\* the step leaves the site of slot i in that slot
SameSite(i) == snps[i].line # 0 /\ snps'[i].line = snps[i].line

\* C11: a site that is Rejected (or was printed) stays so under every later
\* pass, a pass never turns a Rejected slot of its range Kept, a site that is
\* printed was Pending or Kept before the step, and a Kept site only changes
\* to the non-Kept state.
C11_RejectedNeverKeptAgain ==
  [][ /\ \A i \in DOMAIN snps :
           /\ (SameSite(i) /\ snps[i].ok = 0) => snps'[i].ok = 0
           /\ (SameSite(i) /\ snps[i].ok = 1) => snps'[i].ok \in {0, 1}
      /\ \A i \in EvalRange(ev'.pre, ev'.n) :
           ev'.pre[i].ok = 0 => ev'.post[i].ok = 0
      /\ \A k \in (Len(out) + 1)..Len(out') :
           \A i \in DOMAIN snps :
             (snps[i].line # 0 /\ snps[i].line = out'[k].line) => snps[i].ok # 0
    ]_vars

\* the last pass went over a site that an earlier pass rejected, that was never
\* printed and that has no conflict left in the range: it stayed Rejected
C11_Witness ==
  /\ ev.kind # "none"
  /\ \E i \in EvalRange(ev.pre, ev.n) :
       /\ ev.pre[i].ok = 0 /\ ev.pre[i].line # 0
       /\ ev.pre[i].line \notin EmittedLines(out)
       /\ ~\E j \in EvalRange(ev.pre, ev.n) : j > i /\ Conflict(i, j)
       /\ ev.post[i].ok = 0 /\ snps[i].ok = 0 /\ snps[i].line = ev.pre[i].line

\* C12: estLD applied again to the window a pass has left, with the same
\* active count and threshold, changes no slot.
C12_SecondPassChangesNothing ==
  ev.kind # "none" => estLD(ev.post, ev.n, ind_n, r2) = ev.post

\* a pass that rejected the site just placed and left a site Kept that an
\* earlier pass had kept
C12_Witness ==
  /\ ev.kind # "none"
  /\ \E i \in NewlyRejected : ev.pre[i].ok = -1
  /\ \E i \in EvalRange(ev.pre, ev.n) : ev.pre[i].ok = 1 /\ ev.post[i].ok = 1

\* slot i holds a site that passed the pre-filters
HoldsCandidate(i) == snps[i].cand # 0 /\ snps[i].chr # ""

\* the step's chromosome-boundary pass rejected the site of slot i
RejectedAtBoundary(i) ==
  /\ ln'.drained /\ ev'.kind = "chrom" /\ i \in EvalRange(ev'.pre, ev'.n)
  /\ ev'.pre[i].line = snps[i].line /\ ev'.post[i].ok = 0

\* C13: a candidate site whose slot is written by a later line is by then
\* neither Pending nor Kept (it was Rejected or printed before, or the
\* boundary pass and flush of that line reject or print it first), and when
\* the input is exhausted no slot holds a Pending or Kept candidate: every
\* candidate has been through a pass and was printed or Rejected.
C13_NoCandidateLostOrLeft ==
  /\ [][ \A i \in DOMAIN snps :
           (HoldsCandidate(i) /\ snps'[i].line # snps[i].line)
             => \/ snps[i].ok = 0
                \/ snps[i].line \in EmittedLines(out')
                \/ RejectedAtBoundary(i)
       ]_vars
  /\ [](pc = "done" => \A i \in DOMAIN snps : HoldsCandidate(i) => snps[i].ok = 0)

\* the input is exhausted after more candidates than the window has slots;
\* one of the candidates no longer in the window was printed, another was not
C13_Witness ==
  /\ pc = "done" /\ ncand > win /\ win >= 2
  /\ \E a, b \in 1..Len(cands) :
       /\ \A i \in DOMAIN snps : snps[i].line \notin {cands[a].line, cands[b].line}
       /\ cands[a].line \in EmittedLines(out)
       /\ cands[b].line \notin EmittedLines(out)

\* the line just read carries a chromosome that sorts before the chromosome
\* of the line read before it
OutOfOrderLine == ln.line > 1 /\ ChrIdx(ln.chr) < ChrIdx(ln.prev)

\* C14: a line that is out of (chromosome, position) order ends the run with
\* a failure; the line is not placed and nothing is evaluated or printed for
\* it.
C14_UnsortedInputIsFatal ==
  OutOfOrderLine =>
    /\ pc = "fatal"
    /\ \A i \in DOMAIN snps : snps[i].line # ln.line

\* an argument triple of -r2 that is numeric and in range: window size at
\* least 1, 1 <= step <= window size, 0 <= threshold <= 1
ValidTriple(t) ==
  /\ isNumeric(t[1]) /\ isNumeric(t[2]) /\ isNumeric(t[3]) /\ ~IsNan(t[3])
  /\ atoi(t[1]) >= 1 /\ atoi(t[2]) >= 1 /\ atoi(t[2]) <= atoi(t[1])
  /\ atof(t[3]) >= 0 /\ atof(t[3]) <= 100

\* C15: the pruning engine is only started with win >= 1, 1 <= step <= win
\* and a threshold in [0, 1], and only if a -r2 triple was given and every
\* -r2 triple given was numeric and in range.
C15_InvalidR2NeverStartsEngine ==
  pc = "pruning" =>
    /\ win >= 1 /\ step >= 1 /\ step <= win
    /\ r2 # NaN /\ r2 >= 0 /\ r2 <= 100
    /\ cli.r2args # <<>>
    /\ \A k \in 1..Len(cli.r2args) : ValidTriple(cli.r2args[k])

\* a token that does not begin with the missing marker and whose length is
\* not 3, 7, 11 or 15 or that has another character than 0 and 1 at an even
\* offset of the C string
MalformedToken(tok) ==
  /\ tok[1] # "."
  /\ \/ Len(tok) \notin {3, 7, 11, 15}
     \/ \E o \in 1..Len(tok) : o % 2 = 1 /\ tok[o] \notin {"0", "1"}

\* C16: a line with such a token puts the run in the fatal state, the line is
\* not placed and no pass is made for it, and no step leaves the fatal state.
C16_MalformedTokenIsFatal ==
  /\ []( (\E k \in 1..Len(ln.row) : MalformedToken(ln.row[k]))
           => (pc = "fatal" /\ ~ln.passed /\ ev.kind \in {"none", "chrom"}) )
  /\ [](pc = "fatal" => \E k \in 1..Len(ln.row) : MalformedToken(ln.row[k]))
  /\ [][pc # "fatal"]_vars

\* the run ended by a malformed token while a Kept site that was never
\* printed sits in the window
C16_Witness ==
  /\ pc = "fatal" /\ nline >= 3
  /\ \E i \in DOMAIN snps :
       /\ snps[i].ok = 1 /\ snps[i].cand # 0
       /\ snps[i].line \notin EmittedLines(out)

\* number of characters 1 at the even offsets of the C string
OnesAtEvenOffsets(tok) ==
  Cardinality({ o \in 1..Len(tok) : o % 2 = 1 /\ tok[o] = "1" })

\* ploidy 2, 4, 6, 8 for the lengths 3, 7, 11, 15
PloidyOfLength(n) == (n + 1) \div 2

\* the slots that hold the line just read
SlotsOfLine == { i \in DOMAIN snps : ln.line # 0 /\ snps[i].line = ln.line }

\* C17: for the line just read, the dosage stored for a token that does not
\* begin with the missing marker is the number of 1 at its even offsets and
\* lies in 0..ploidy, whatever the slot held before.
C17_DosageCountsAltAlleles ==
  \A i \in SlotsOfLine : \A k \in 1..Len(ln.row) :
    (ln.row[k][1] # "." /\ Len(ln.row[k]) \in {3, 7, 11, 15}) =>
      /\ snps[i].geno[k] = OnesAtEvenOffsets(ln.row[k])
      /\ snps[i].geno[k] >= 0
      /\ snps[i].geno[k] <= PloidyOfLength(Len(ln.row[k]))

\* the line just read was written to a slot whose previous occupant had a
\* missing genotype and other dosages where the line has tetraploid and
\* diploid dosages
C17_Witness ==
  /\ nline >= 3 /\ win_n = win - 1
  /\ \E i \in SlotsOfLine :
       /\ \E k \in 1..Len(ln.row) : Len(ln.row[k]) = 7 /\ snps[i].geno[k] = 4
       /\ \E k \in 1..Len(ln.row) : Len(ln.row[k]) = 3 /\ snps[i].geno[k] = 0
       /\ \E j \in 1..Len(out) :
            /\ out[j].line # 0 /\ out[j].line < ln.line
            /\ \A m \in DOMAIN snps : snps[m].line # out[j].line
            /\ \E k \in 1..Len(ln.row) :
                 out[j].geno[k] # snps[i].geno[k] /\ ln.row[k][1] # "."

RECURSIVE CountMissing(_, _)
CountMissing(row, k) ==
  IF k > Len(row) THEN 0
  ELSE (IF row[k][1] = "." THEN 1 ELSE 0) + CountMissing(row, k + 1)

RECURSIVE AltOfCalled(_, _)
AltOfCalled(row, k) ==
  IF k > Len(row) THEN 0
  ELSE (IF row[k][1] = "." THEN 0 ELSE OnesAtEvenOffsets(row[k]))
       + AltOfCalled(row, k + 1)

RECURSIVE AllelesOfCalled(_, _)
AllelesOfCalled(row, k) ==
  IF k > Len(row) THEN 0
  ELSE (IF row[k][1] = "." THEN 0 ELSE PloidyOfLength(Len(row[k])))
       + AllelesOfCalled(row, k + 1)

\* C18: for the line just read, every token that begins with the missing
\* marker has the dosage -1, the missing tally is the number of such tokens,
\* and the alt-allele sum and the allele total are those of the other tokens.
C18_MissingTokenOnlyCountsAsMissing ==
  ln.line # 0 =>
    /\ \A i \in SlotsOfLine : \A k \in 1..Len(ln.row) :
         ln.row[k][1] = "." => snps[i].geno[k] = -1
    /\ ln.sums.mis_i = CountMissing(ln.row, 1)
    /\ ln.sums.alt_i = AltOfCalled(ln.row, 1)
    /\ ln.sums.hap_i = AllelesOfCalled(ln.row, 1)

\* the line just read has a missing token of one character and one with
\* trailing characters 2, x, 1, and was written over a slot that was in use
C18_Witness ==
  /\ nline >= 3 /\ win_n = win - 1
  /\ \E a, b \in 1..Len(ln.row) : ln.row[a] = TMis1 /\ ln.row[b] = TMisJunk
  /\ ln.sums.mis_i = 2 /\ ln.sums.hap_i = 2 /\ ln.sums.alt_i = 2

\* individuals that are not missing in a and not missing in b
Shared(a, b) == { k \in DOMAIN a : a[k] # -1 /\ b[k] # -1 }

\* a has zero variance over the individuals non-missing in both vectors
\* (also when there is no such individual)
ZeroVariance(a, b) == \A k, m \in Shared(a, b) : a[k] = a[m]

\* the two vectors of the window before the pass
PairA == IF pc = "pair" THEN snps[0].geno ELSE ev.pre[0].geno
PairB == IF pc = "pair" THEN snps[1].geno ELSE ev.pre[1].geno

\* C19: if one of the two vectors has zero variance over the individuals
\* non-missing in both, r2 > threshold is false for the thresholds 0, 0.1 and
\* 1, and the pass rejects no site for the pair.
C19_ZeroVarianceNeverRejects ==
  (pc \in {"pair", "evaluated", "swapped"}
   /\ (ZeroVariance(PairA, PairB) \/ ZeroVariance(PairB, PairA)))
    => /\ \A pct \in R2Thresholds : ~R2Exceeds(estR2(PairA, PairB, ind_n), pct)
       /\ pc # "pair" => (ev.blamed = {} /\ snps[0].ok = 1 /\ snps[1].ok = 1)

\* a pass over a pair whose first vector varies and whose second vector is
\* constant over the two individuals they share
C19_Witness ==
  /\ pc = "evaluated" /\ r2 = 0
  /\ Cardinality(Shared(PairA, PairB)) = 2
  /\ ~ZeroVariance(PairA, PairB) /\ ZeroVariance(PairB, PairA)
  /\ snps[0].ok = 1

\* C20: estR2 gives the same value for (a, b) and (b, a), and the pass over
\* the window in the other order takes the decision r2 > threshold the same
\* way.
C20_EstimatorSymmetric ==
  pc \in {"pair", "evaluated", "swapped"} =>
    /\ estR2(PairA, PairB, ind_n) = estR2(PairB, PairA, ind_n)
    /\ \A pct \in R2Thresholds :
         R2Exceeds(estR2(PairA, PairB, ind_n), pct)
           <=> R2Exceeds(estR2(PairB, PairA, ind_n), pct)
    /\ pc # "pair" =>
         ((ev.blamed = {}) <=>
            (Blamed(PairWindow(PairB, PairA), 2, ind_n, r2) = {}))

\* the pass over the swapped window rejected a site for a pair of vectors
\* that differ and of which one has a missing entry
C20_Witness ==
  /\ pc = "swapped" /\ ev.blamed # {} /\ PairA # PairB
  /\ \E k \in DOMAIN PairA : PairA[k] = -1 /\ PairB[k] # -1
  /\ snps[0].ok = 0

\* C21: the window has the slots 0..win-1 in every state; a line is written
\* into the slot at the cursor, which is one of them, and no other slot gets
\* another site by that line; every dosage vector is the buffer of its slot,
\* of the length the lines have.
C21_WindowKeepsItsSlots ==
  /\ []( /\ DOMAIN snps = 0..(win - 1)
         /\ win_i \in DOMAIN snps
         /\ ln.line # 0 =>
              (ln.at.win_i \in DOMAIN snps /\ snps[ln.at.win_i].line = ln.line)
         /\ \A i \in DOMAIN snps :
              /\ Len(snps[i].geno) \in {0, Len(ln.row)}
              /\ snps[i].line # 0 => Len(snps[i].geno) = Len(ln.row) )
  /\ [][ /\ DOMAIN snps' = DOMAIN snps
         /\ \A i \in DOMAIN snps :
              snps'[i].line # snps[i].line => (ln'.line # ln.line /\ i = ln'.at.win_i)
       ]_vars

\* the input had more lines, and more candidate sites, than the window has
\* slots, and a slot that held a printed site holds a later site now
C21_Witness ==
  /\ pc = "done" /\ win >= 2 /\ nline > win /\ ncand > win
  /\ \E k \in 1..Len(out) : \E i \in DOMAIN snps :
       /\ out[k].line # 0 /\ out[k].pos # snps[i].pos
       /\ \A m \in DOMAIN snps : snps[m].line # out[k].line

\* C22: the placement of a site makes a pass exactly when it is the win-th
\* placement since the last reset or comes a multiple of step placements
\* after it; no placement before the win-th makes a pass; a line that places
\* no site makes no pass but the forced one of a boundary, and the only other
\* pass is the one at the end of the input.
C22_PassOncePerStepPlacements ==
  /\ (pc = "reading" /\ ln.passed) =>
       /\ ln.placed < win => ev.kind # "step"
       /\ (ev.kind = "step") <=>
            (ln.placed >= win /\ (ln.placed - win) % step = 0)
  /\ (pc = "reading" /\ ln.line # 0) =>
       /\ ev.kind \in {"none", "chrom", "step"}
       /\ ~ln.passed => ev.kind # "step"
       /\ ~ln.drained => ev.kind # "chrom"
  /\ pc = "done" => ev.kind = "eof"

\* the window was full, the last placement but one made a pass and the last
\* one, with step 2, made none
C22_Witness ==
  /\ pc = "reading" /\ step = 2 /\ ln.passed /\ ln.placed = win + 1
  /\ ev.kind = "none" /\ win_n = win - 1

\* C23 (as stated): with win = step every placement of a site makes a pass.
C23_EveryPlacementEvaluates ==
  (pc = "reading" /\ win = step /\ ln.passed) => ev.kind = "step"

\* C23 (amended): with win = step the placement of a site makes a pass exactly
\* when the site is written at the last slot of the window, which is every
\* win-th placement since the last reset; every placement makes a pass only
\* for win = step = 1.
C23_PassAtLastSlot ==
  (pc = "reading" /\ win = step /\ ln.passed) =>
    /\ (ev.kind = "step") <=> (ln.at.win_i = win - 1)
    /\ (ev.kind = "step") <=> (ln.placed % win = 0)
    /\ win = 1 => ev.kind = "step"

\* with win = step = 3 the third placement made a pass after two placements
\* that made none
C23_Witness ==
  /\ pc = "reading" /\ win = 3 /\ step = 3 /\ ln.passed /\ ln.placed = 3
  /\ ev.kind = "step" /\ ev.n = 3
  /\ \A i \in EvalRange(ev.pre, ev.n) : ev.pre[i].ok = -1

\* the last pass was a forced one: the first line and the number of sites
\* placed since the reset before it
PassSince == IF ev.kind = "chrom" THEN ln.sinceBefore ELSE ln.since
PassPlaced == IF ev.kind = "chrom" THEN ln.placedBefore ELSE ln.placed

\* before the last pass slot i held a site placed since that reset
PlacedSinceReset(i) ==
  ev.pre[i].cand # 0 /\ ev.pre[i].chr # "" /\ ev.pre[i].line >= PassSince

\* C24: in a forced pass over a window with fewer than win sites placed since
\* the last reset, every slot that is an argument of a comparison, and every
\* slot that the pass leaves Kept, holds a site placed since that reset.
C24_PartialPassSeesPlacedSitesOnly ==
  (ev.kind \in {"chrom", "eof"} /\ PassPlaced < win) =>
    /\ \A p \in ev.cmp : PlacedSinceReset(p[1]) /\ PlacedSinceReset(p[2])
    /\ \A i \in EvalRange(ev.pre, ev.n) : ev.post[i].ok = 1 => PlacedSinceReset(i)

\* C25: a line whose site fails a pre-filter leaves the population counter,
\* the step counter and the cursor as they were, makes no pass and prints
\* nothing, leaves the ok field of every slot but the one at the cursor as it
\* was, and leaves its own slot tombstoned; a tombstoned slot is no argument
\* of a comparison.
C25_FilteredLineTouchesOwnSlotOnly ==
  /\ [][ (ln'.line # ln.line /\ ~ln'.passed) =>
           /\ win_n' = win_n /\ step_i' = step_i /\ win_i' = win_i
           /\ ev'.kind = "none" /\ out' = out
           /\ \A i \in DOMAIN snps : i # win_i => snps'[i].ok = snps[i].ok
           /\ snps'[win_i].chr = "" /\ snps'[win_i].line = ln'.line
       ]_vars
  /\ [](\A p \in ev.cmp : ev.pre[p[1]].chr # "" /\ ev.pre[p[2]].chr # "")

\* the step reads a line
ReadsLine == ln'.line # ln.line

\* the population counter after a line that found it at n and did not reset it
CountedUp(n, placedNow) == IF placedNow /\ n < win - 1 THEN n + 1 ELSE n

\* C26: the cursor and the population counter are in 0..win-1 and the step
\* counter is at most win; a line changes the population counter only by
\* adding one for the site it places, up to win-1, or by setting it to 0
\* first, and it sets it to 0 only if its chromosome differs from that of the
\* line before it.
C26_CountersInRange ==
  /\ [](win_i \in 0..(win - 1) /\ win_n \in 0..(win - 1) /\ step_i \in 0..win)
  /\ [][ /\ ~ReadsLine => win_n' = win_n
         /\ ReadsLine =>
              /\ win_n' \in { CountedUp(win_n, ln'.passed), CountedUp(0, ln'.passed) }
              /\ win_n' # CountedUp(win_n, ln'.passed) => ln'.drained
              /\ ln'.drained => (ln'.prev # "" /\ ln'.chr # ln'.prev)
       ]_vars

\* what a tool has printed: chromosome and position of every record
Printed(o) == [k \in 1..Len(o) |-> <<o[k].chr, o[k].pos>>]

\* C27: after every input line and at the end of the input, prune_ld and
\* poly_freq have printed the same loci in the same order, and their cursor,
\* population counter, step counter and the ok field of every slot agree.
C27_EnginesAgree ==
  /\ Printed(out) = Printed(ref.out)
  /\ win_i = ref.win_i /\ win_n = ref.win_n /\ step_i = ref.step_i
  /\ \A i \in DOMAIN snps : snps[i].ok = ref.snps[i].ok

\* C28: right after a pass, of two non-tombstoned slots of the evaluated range
\* that carry the same chromosome and whose r2 exceeds the threshold, the one
\* at the lower index is not Kept, and no two such slots are both Kept.
C28_NoKeptPairAboveThreshold ==
  ev.kind # "none" =>
    /\ \A i, j \in EvalRange(ev.pre, ev.n) :
         (i < j /\ Conflict(i, j)) => ev.post[i].ok # 1
    /\ \A i, j \in EvalRange(ev.post, ev.n) :
         (i # j /\ ev.post[i].ok = 1 /\ ev.post[j].ok = 1) =>
           ~( /\ ev.post[i].chr = ev.post[j].chr
              /\ R2Exceeds(estR2(ev.post[i].geno, ev.post[j].geno, ind_n), r2) )

\* a pass over three sites rejected the first one, which was Pending or Kept,
\* for its r2 with the third one, the second one lying below the threshold
C28_Witness ==
  /\ ev.kind # "none" /\ ev.n = 3
  /\ \A i \in 0..2 : ev.pre[i].cand # 0 /\ ev.pre[i].chr = ev.pre[0].chr
  /\ ~Conflict(0, 1) /\ Conflict(0, 2)
  /\ ev.pre[0].ok \in {-1, 1} /\ ev.post[0].ok = 0 /\ ev.post[2].ok = 1

\* C29: the ok field of a slot that no line has written is never read (it is
\* still as malloc returned it), no pass has such a slot in its range and no
\* record is printed from such a slot.
C29_NoReadBeforeWrite ==
  /\ \A i \in DOMAIN snps : snps[i].line = 0 => snps[i].ok = Uninit
  /\ \A i \in EvalRange(ev.pre, ev.n) : ev.pre[i].line # 0
  /\ \A k \in 1..Len(out) : out[k].line # 0

\* the step reads a line whose locus is not in the sites list
SkippedStep == nline' # nline /\ ln'.line = ln.line

\* C30: a line whose locus is not in the sites list leaves every slot that
\* holds a site, the cursor, the counters and the output as they were, and
\* the run prints the same sites as the run without such lines.
C30_SkippedLineLeavesWindow ==
  /\ [][ SkippedStep =>
           /\ \A i \in DOMAIN snps : snps[i].line # 0 => snps'[i] = snps[i]
           /\ win_i' = win_i /\ win_n' = win_n /\ step_i' = step_i /\ out' = out
       ]_vars
  /\ [](pc = "done" => EmittedLines(out) = EmittedLines(ref.out))

====
